---- MODULE Spec2Model ----
\* Model of scripts/measurement_update_likelihood_field.py: the node
\* LikelihoodFieldMeasurementUpdate, its constructor (main thread), the two
\* subscriber callbacks get_map and robot_scan_received (rospy callback
\* threads, which may run as soon as the subscription exists) and the
\* publishing loop run().
\*
\* Units.  Lengths are in units of the noise standard deviation (0.1 m, line
\* 153), so a seed coordinate of -6.6 m is -66.  Headings are in quarter
\* turns.  A weight is the real number  c^n * exp(-s/2)  with
\* c = 1/(sd*sqrt(2*pi)), kept exactly as the pair (n, s): n densities were
\* multiplied and s is the sum of their squared distances (in sd^2).  The
\* float 0.0 produced by underflow is the weight with zero = TRUE.
EXTENDS Integers, Sequences, FiniteSets, TLC

\* ---------------------------------------------------------------- bounds
MaxMaps == 2          \* distinct map messages 1..MaxMaps
MaxMapEvents == 2     \* map deliveries in one run
MaxScanEvents == 2    \* scan deliveries in one run
MaxPublish == 2       \* iterations of the run() loop
MaxBeams == 2         \* longest scan
FarRange == 30        \* the one over-range reading used (3.0 m)

\* ------------------------------------------------------ program constants
NumSeeds == 4             \* len(initial_particle_set)
FullSweep == 360          \* direction_idxs = range(360)
EulerArgsPassed == 4      \* positional arguments at the call of line 142
EulerArgsAccepted == 2    \* euler_from_quaternion(quaternion, axes='sxyz')
NoMap == 0                \* OccupancyGrid(): the empty placeholder grid

\* ------------------------------------------- parameters of the design (spec)
BeamStride == 1           \* beam_stride, default: every beam
MaxUsableRange == 20      \* max_range: 2.0 m
OutOfBoundsCap2 == 10000  \* square of out_of_bounds_distance_cap (10 m)
MapHalfExtent == 100      \* the grid covers [-10 m, 10 m] in x and y

VARIABLES pc, seed_i, initialized, map_sub, scan_sub, pub_made,
          map, likelihood_field, particle_cloud,
          published, nPub, delivered, nMaps,
          scan, nScans, outcome, reads, contrib

vars == <<pc, seed_i, initialized, map_sub, scan_sub, pub_made,
          map, likelihood_field, particle_cloud,
          published, nPub, delivered, nMaps,
          scan, nScans, outcome, reads, contrib>>

\* ------------------------------------------------------------- weights
One == [n |-> 0, s |-> 0, zero |-> FALSE]

\* 1000 * ln of a non-zero weight: ln c = 1.3836, so 1384*n - 500*s
Log1000(w) == 1384 * w.n - 500 * w.s

\* ln of the smallest positive double is -745.13
UnderflowLog1000 == 0 - 745133

FloatOf(n, s) ==
    IF 1384 * n - 500 * s < UnderflowLog1000
    THEN [n |-> 0, s |-> 0, zero |-> TRUE]
    ELSE [n |-> n, s |-> s, zero |-> FALSE]

compute_prob_zero_centered_gaussian(dist2) == FloatOf(1, dist2)

FloatMul(a, b) ==
    IF a.zero \/ b.zero
    THEN [n |-> 0, s |-> 0, zero |-> TRUE]
    ELSE FloatOf(a.n + b.n, a.s + b.s)

\* --------------------------------------------------------------- poses
\* [x, y, theta] of initial_particle_set, theta in quarter turns
initial_particle_set ==
    << <<0, 0, 0>>, <<0 - 66, 0 - 35, 2>>, <<58, 0 - 50, 1>>, <<0 - 20, 45, 3>> >>

\* quaternion_from_euler(0, 0, yaw): (x, y, z, w) = (0, 0, sin(yaw/2), cos(yaw/2)),
\* times 1000
quaternion_from_euler(yaw) ==
    CASE yaw = 0 -> [z |-> 0, w |-> 1000]
      [] yaw = 1 -> [z |-> 707, w |-> 707]
      [] yaw = 2 -> [z |-> 1000, w |-> 0]
      [] yaw = 3 -> [z |-> 707, w |-> 0 - 707]

\* yaw = atan2(2wz, 1 - 2z^2), in (-pi, pi]
euler_from_quaternion(qz, qw) ==
    LET sn == 2 * qw * qz
        cs == 1000000 - 2 * qz * qz
    IN  IF sn > 500000 THEN 1
        ELSE IF sn < 0 - 500000 THEN 0 - 1
        ELSE IF cs < 0 THEN 2 ELSE 0

SeedParticle(i) ==
    LET q == quaternion_from_euler(initial_particle_set[i][3])
    IN  [pose |-> [x |-> initial_particle_set[i][1],
                   y |-> initial_particle_set[i][2],
                   qz |-> q.z, qw |-> q.w],
         w |-> One]

\* ---------------------------------------------------------------- scans
Beam == [range : {5, FarRange}, valid : BOOLEAN]

Scans == UNION {[1 .. k -> Beam] : k \in 0 .. MaxBeams}

\* ------------------------------------------------------------ geometry
\* 1000*cos(a) and 1000*sin(a) for a whole number a of RADIANS: line 149 adds
\* the beam index itself to the heading.
Cos1000(a) ==
    CASE a = 0 -> 1000 [] a = 1 -> 540 [] a = 2 -> 0 - 416
      [] a = 3 -> 0 - 990 [] OTHER -> 0 - 654

Sin1000(a) ==
    CASE a = 0 -> 0 [] a = 1 -> 841 [] a = 2 -> 909
      [] a = 3 -> 141 [] OTHER -> 0 - 757

\* cos and sin of (theta quarter turns + a radians)
CosSum1000(theta, a) ==
    CASE theta = 0 -> Cos1000(a)
      [] theta = 1 -> 0 - Sin1000(a)
      [] theta = 2 -> 0 - Cos1000(a)
      [] OTHER -> Sin1000(a)

SinSum1000(theta, a) ==
    CASE theta = 0 -> Sin1000(a)
      [] theta = 1 -> Cos1000(a)
      [] theta = 2 -> 0 - Sin1000(a)
      [] OTHER -> 0 - Cos1000(a)

Round1000(v) == (v + 500) \div 1000

\* lines 149-150
ScanEnd(x, y, theta, r, idx) ==
    << x + Round1000(r * CosSum1000(theta, idx)),
       y + Round1000(r * SinSum1000(theta, idx)) >>

\* ------------------------------------------------------ likelihood field
\* The occupied cells of map message m; the placeholder grid has none.
MapObstacles(m) == IF m = NoMap THEN {} ELSE {<<20 * m, 0>>}

\* LikelihoodField(): the constructor is given no argument; the field is built
\* from the map m the map server holds at that moment and is immutable
LikelihoodField(m) == [source |-> m]

Sq(v) == v * v

\* squared distance from (x, y) to the nearest occupied cell of the field's
\* map; the cap outside the grid or when nothing is occupied
get_closest_obstacle_distance(field, x, y) ==
    LET obs == MapObstacles(field.source)
        d2(o) == Sq(x - o[1]) + Sq(y - o[2])
    IN  IF obs = {} \/ x < 0 - MapHalfExtent \/ x > MapHalfExtent
                    \/ y < 0 - MapHalfExtent \/ y > MapHalfExtent
        THEN OutOfBoundsCap2
        ELSE LET m == CHOOSE o \in obs : \A o2 \in obs : d2(o) <= d2(o2)
             IN  IF d2(m) > OutOfBoundsCap2 THEN OutOfBoundsCap2 ELSE d2(m)

\* ------------------------------------------------------- beam selection
\* the design's selection: every stride-th index of the scan's own length,
\* valid and within the usable range
SelectedBeams(data) ==
    {i \in 0 .. Len(data) - 1 :
        /\ i % BeamStride = 0
        /\ data[i + 1].valid
        /\ data[i + 1].range <= MaxUsableRange}

\* names bound when line 148 is reached
NamesInScope ==
    {"self", "data", "direction_idxs", "particle", "particle_x", "particle_y",
     "particle_theta", "q"}

BeamLoopName == "cardinal_directions_idxs"

\* the indices the loop of line 148 iterates, or the NameError it raises
BeamLoopIdxs ==
    IF BeamLoopName \in NamesInScope
    THEN [exc |-> "none", idxs |-> 0 .. FullSweep - 1]
    ELSE [exc |-> "NameError", idxs |-> {}]

\* ---------------------------------------------------------------- scoring
NoBeams == [q |-> One, used |-> {}, exc |-> "none"]

\* lines 149-153 for the index k: data.ranges[k] raises IndexError past the end
BeamStep(pose, theta, data, field, k, acc) ==
    IF k >= Len(data) THEN [acc EXCEPT !.exc = "IndexError"]
    ELSE [acc EXCEPT
            !.q = FloatMul(acc.q, compute_prob_zero_centered_gaussian(
                      get_closest_obstacle_distance(field,
                          ScanEnd(pose.x, pose.y, theta, data[k + 1].range, k)[1],
                          ScanEnd(pose.x, pose.y, theta, data[k + 1].range, k)[2]))),
            !.used = acc.used \cup {k}]

\* lines 147-153 over the indices idxs taken in increasing order from k on:
\* q, the indices read, and the exception that ended the loop
RECURSIVE Accumulate(_, _, _, _, _, _, _)
Accumulate(pose, theta, data, field, idxs, k, acc) ==
    IF acc.exc # "none" \/ \A i \in idxs : i < k THEN acc
    ELSE Accumulate(pose, theta, data, field, idxs, k + 1,
                    IF k \in idxs THEN BeamStep(pose, theta, data, field, k, acc)
                    ELSE acc)

\* the call of lines 142-145
EulerCall(pose) ==
    IF EulerArgsPassed > EulerArgsAccepted
    THEN [exc |-> "TypeError", theta |-> 0]
    ELSE [exc |-> "none", theta |-> euler_from_quaternion(pose.qz, pose.qw)]

\* line 155, reached when the beam loop raised nothing
SetWeight(particle, r) ==
    [exc |-> r.exc,
     particle |-> IF r.exc = "none" THEN [particle EXCEPT !.w = r.q] ELSE particle,
     used |-> r.used]

\* lines 146-155, given the outcome t of the call of line 142 and the
\* outcome loop of evaluating the iterable of line 148
ScoreAfter(particle, data, field, t, loop) ==
    IF t.exc # "none"
    THEN [exc |-> t.exc, particle |-> particle, used |-> {}]
    ELSE IF loop.exc # "none"
    THEN [exc |-> loop.exc, particle |-> particle, used |-> {}]
    ELSE SetWeight(particle,
             Accumulate(particle.pose, t.theta, data, field, loop.idxs, 0, NoBeams))

\* the same loop body with the call and the loop variable as the design
\* means them: it completes, and writes q = 1.0 when no beam is selected
ScoreParticleCompletes(particle, data, field) ==
    SetWeight(particle,
        Accumulate(particle.pose,
                   euler_from_quaternion(particle.pose.qz, particle.pose.qw),
                   data, field, SelectedBeams(data), 0, NoBeams))

\* one iteration of the loop of line 138 (lines 139-155)
ScoreParticle(particle, data, field) ==
    ScoreAfter(particle, data, field, EulerCall(particle.pose), BeamLoopIdxs)

AddUsed(used, rest) == [rest EXCEPT !.used = rest.used \cup used]

\* the loop of line 138 from particle k on: it stops at the first exception
RECURSIVE ScoreCloud(_, _, _, _)
ScoreRest(cloud, data, field, k, r) ==
    IF r.exc # "none"
    THEN [exc |-> r.exc, cloud |-> [cloud EXCEPT ![k] = r.particle], used |-> r.used]
    ELSE AddUsed(r.used,
             ScoreCloud([cloud EXCEPT ![k] = r.particle], data, field, k + 1))

ScoreCloud(cloud, data, field, k) ==
    IF k > Len(cloud) THEN [exc |-> "none", cloud |-> cloud, used |-> {}]
    ELSE ScoreRest(cloud, data, field, k, ScoreParticle(cloud[k], data, field))

\* the guard of line 129 left out
ScanNeverIgnored(init) == FALSE

\* line 129
ScanIgnored(init) == ~init

\* the loop of line 120 missing the last particle
PoseArrayShort(cloud) == [i \in 1 .. Len(cloud) - 1 |-> cloud[i].pose]

\* lines 116-121: one pose per particle, in order
PoseArrayOf(cloud) == [i \in 1 .. Len(cloud) |-> cloud[i].pose]

\* line 111
StoreMap(old, data) == data

\* what the loop of line 138 leaves behind when it ended as r
AfterLoop(r) ==
    [outcome |-> IF r.exc = "none" THEN "done" ELSE r.exc,
     cloud |-> r.cloud, used |-> r.used,
     reads |-> {"initialized", "particle_cloud"} \cup
               (IF r.used = {} THEN {} ELSE {"likelihood_field"})]

Ignored(cloud) ==
    [outcome |-> "ignored", cloud |-> cloud, used |-> {}, reads |-> {"initialized"}]

\* a handler that re-seeds the cloud (line 83) before scoring it
ScanResultReseeds(init, cloud, data, field) ==
    IF ScanIgnored(init) THEN Ignored(cloud)
    ELSE AfterLoop(ScoreCloud(<< >>, data, field, 1))

\* what one run of robot_scan_received (lines 126-155) leaves behind
ScanResult(init, cloud, data, field) ==
    IF ScanIgnored(init) THEN Ignored(cloud)
    ELSE AfterLoop(ScoreCloud(cloud, data, field, 1))

\* ------------------------------------------------------------------ state
Init ==
    /\ pc = "l54"                 \* lines 47-50 done: initialized = False
    /\ seed_i = 0
    /\ initialized = FALSE
    /\ map_sub = FALSE
    /\ scan_sub = FALSE
    /\ pub_made = FALSE
    /\ map = NoMap
    /\ likelihood_field = [source |-> NoMap]
    /\ particle_cloud = << >>
    /\ published = << >>
    /\ nPub = 0
    /\ delivered = NoMap
    /\ nMaps = 0
    /\ scan = << >>
    /\ nScans = 0
    /\ outcome = "none"
    /\ reads = {}
    /\ contrib = {}

\* ------------------------------------------------- __init__ (main thread)
SubscribeMap ==                                       \* line 54
    /\ pc = "l54"
    /\ map_sub' = TRUE
    /\ pc' = "l57"
    /\ UNCHANGED <<seed_i, initialized, scan_sub, pub_made, map, likelihood_field,
                   particle_cloud, published, nPub, delivered, nMaps,
                   scan, nScans, outcome, reads, contrib>>

SubscribeScan ==                                      \* line 57
    /\ pc = "l57"
    /\ scan_sub' = TRUE
    /\ pc' = "l60"
    /\ UNCHANGED <<seed_i, initialized, map_sub, pub_made, map, likelihood_field,
                   particle_cloud, published, nPub, delivered, nMaps,
                   scan, nScans, outcome, reads, contrib>>

MakePublisher ==                                      \* line 60
    /\ pc = "l60"
    /\ pub_made' = TRUE
    /\ pc' = "l63"
    /\ UNCHANGED <<seed_i, initialized, map_sub, scan_sub, map, likelihood_field,
                   particle_cloud, published, nPub, delivered, nMaps,
                   scan, nScans, outcome, reads, contrib>>

InitMap ==                                            \* line 63
    /\ pc = "l63"
    /\ map' = NoMap
    /\ pc' = "l64"
    /\ UNCHANGED <<seed_i, initialized, map_sub, scan_sub, pub_made, likelihood_field,
                   particle_cloud, published, nPub, delivered, nMaps,
                   scan, nScans, outcome, reads, contrib>>

InitField ==                                          \* line 64
    /\ pc = "l64"
    /\ \E m \in 1 .. MaxMaps : likelihood_field' = LikelihoodField(m)
    /\ pc' = "l66"
    /\ UNCHANGED <<seed_i, initialized, map_sub, scan_sub, pub_made, map,
                   particle_cloud, published, nPub, delivered, nMaps,
                   scan, nScans, outcome, reads, contrib>>

InitCloud ==                                          \* lines 66, 68, 83
    /\ pc = "l66"
    /\ particle_cloud' = << >>
    /\ seed_i' = 1
    /\ pc' = "l86"
    /\ UNCHANGED <<initialized, map_sub, scan_sub, pub_made, map, likelihood_field,
                   published, nPub, delivered, nMaps,
                   scan, nScans, outcome, reads, contrib>>

AppendSeed ==                                         \* lines 86-103
    /\ pc = "l86"
    /\ seed_i <= Len(initial_particle_set)
    /\ particle_cloud' = Append(particle_cloud, SeedParticle(seed_i))
    /\ seed_i' = seed_i + 1
    /\ UNCHANGED <<pc, initialized, map_sub, scan_sub, pub_made, map, likelihood_field,
                   published, nPub, delivered, nMaps,
                   scan, nScans, outcome, reads, contrib>>

InitPublish ==                                        \* line 105
    /\ pc = "l86"
    /\ seed_i > Len(initial_particle_set)
    /\ published' = PoseArrayOf(particle_cloud)
    /\ nPub' = nPub + 1
    /\ pc' = "l70"
    /\ UNCHANGED <<seed_i, initialized, map_sub, scan_sub, pub_made, map,
                   likelihood_field, particle_cloud, delivered, nMaps,
                   scan, nScans, outcome, reads, contrib>>

SetInitialized ==                                     \* line 70
    /\ pc = "l70"
    /\ initialized' = TRUE
    /\ pc' = "run"
    /\ UNCHANGED <<seed_i, map_sub, scan_sub, pub_made, map, likelihood_field,
                   particle_cloud, published, nPub, delivered, nMaps,
                   scan, nScans, outcome, reads, contrib>>

\* ------------------------------------------------------ run (main thread)
RunPublish ==                                         \* lines 159-161
    /\ pc = "run"
    /\ nPub <= MaxPublish
    /\ published' = PoseArrayOf(particle_cloud)
    /\ nPub' = nPub + 1
    /\ UNCHANGED <<pc, seed_i, initialized, map_sub, scan_sub, pub_made, map,
                   likelihood_field, particle_cloud, delivered, nMaps,
                   scan, nScans, outcome, reads, contrib>>

\* -------------------------------------------------------------- callbacks
get_map(data) ==                                      \* lines 109-111
    /\ map_sub
    /\ nMaps < MaxMapEvents
    /\ map' = StoreMap(map, data)
    /\ delivered' = data
    /\ nMaps' = nMaps + 1
    /\ UNCHANGED <<pc, seed_i, initialized, map_sub, scan_sub, pub_made,
                   likelihood_field, particle_cloud, published, nPub,
                   scan, nScans, outcome, reads, contrib>>

Deliver(r) ==
    /\ particle_cloud' = r.cloud
    /\ outcome' = r.outcome
    /\ reads' = r.reads
    /\ contrib' = r.used

robot_scan_received(data) ==                          \* lines 126-155
    /\ scan_sub
    /\ nScans < MaxScanEvents
    /\ Deliver(ScanResult(initialized, particle_cloud, data, likelihood_field))
    /\ scan' = data
    /\ nScans' = nScans + 1
    /\ UNCHANGED <<pc, seed_i, initialized, map_sub, scan_sub, pub_made, map,
                   likelihood_field, published, nPub, delivered, nMaps>>

MapArrives == \E data \in 1 .. MaxMaps : get_map(data)

ScanArrives == \E data \in Scans : robot_scan_received(data)

Next ==
    \/ SubscribeMap
    \/ SubscribeScan
    \/ MakePublisher
    \/ InitMap
    \/ InitField
    \/ InitCloud
    \/ AppendSeed
    \/ InitPublish
    \/ SetInitialized
    \/ RunPublish
    \/ MapArrives
    \/ ScanArrives

Spec == Init /\ [][Next]_vars

\* ================================================================ claims
Seeded(cloud) ==
    /\ Len(cloud) = NumSeeds
    /\ \A i \in 1 .. NumSeeds : cloud[i].pose = SeedParticle(i).pose

Handled == outcome \in {"done", "TypeError", "NameError", "IndexError"}

ScanStep == nScans' = nScans + 1

\* the exact likelihood of a pose, as the pair (n, s) of c^n * exp(-s/2):
\* the product over the selected beams from index k on
RECURSIVE ExactLikelihood(_, _, _, _)
ExactLikelihood(pose, data, field, k) ==
    IF k >= Len(data) THEN [n |-> 0, s |-> 0]
    ELSE LET rest == ExactLikelihood(pose, data, field, k + 1)
             e == ScanEnd(pose.x, pose.y, euler_from_quaternion(pose.qz, pose.qw),
                          data[k + 1].range, k)
         IN  IF k \in SelectedBeams(data)
             THEN [n |-> rest.n + 1,
                   s |-> rest.s + get_closest_obstacle_distance(field, e[1], e[2])]
             ELSE rest

Exact(i) == ExactLikelihood(particle_cloud[i].pose, scan, likelihood_field, 0)

\* C1: once initialize_particle_cloud has run, whatever scans, maps and
\* publications follow, the particle set has the seeds' length, order and
\* poses.
C1_PosesFrozen == pc \in {"l70", "run"} => Seeded(particle_cloud)

C1_Witness ==
    /\ pc = "run" /\ Handled /\ nMaps > 0 /\ nPub > 1
    /\ Len(particle_cloud) = NumSeeds

\* C2: after a scan with at least one selected beam has been handled, every
\* particle's weight is the product of the densities of its selected beams.
C2_WeightIsProduct ==
    (Handled /\ SelectedBeams(scan) # {}) =>
        \A i \in 1 .. Len(particle_cloud) :
            /\ ~particle_cloud[i].w.zero
            /\ particle_cloud[i].w.n = Exact(i).n
            /\ particle_cloud[i].w.s = Exact(i).s

C4_NeverRaises == nScans > 0 => outcome \in {"ignored", "done"}

\* C5: once a map has arrived, the field the scoring reads is the one derived
\* from the most recently received map.
C5_FieldFollowsMap ==
    (pc \in {"l70", "run"} /\ nMaps > 0) => likelihood_field.source = delivered

\* C6: the beams that contribute to the weights of a handled scan are exactly
\* the selected ones: every stride-th index, valid, within the usable range.
C6_ContributingBeams == Handled => contrib = SelectedBeams(scan)

\* C7: after a handled scan the stored weights are never zero and order the
\* particles as their exact likelihoods do.
C7_RankingPreserved ==
    Handled =>
        \A i, j \in 1 .. Len(particle_cloud) :
            /\ ~particle_cloud[i].w.zero
            /\ (Log1000(Exact(i)) < Log1000(Exact(j)))
                 <=> (Log1000(particle_cloud[i].w) < Log1000(particle_cloud[j].w))

\* C8 as stated: every published snapshot has one entry per particle, in
\* order, carrying the particle's pose and its current weight.
C8_PoseAndWeight ==
    nPub > 0 =>
        /\ Len(published) = Len(particle_cloud)
        /\ \A i \in 1 .. Len(published) :
            /\ "pose" \in DOMAIN published[i]
            /\ "w" \in DOMAIN published[i]
            /\ published[i].pose = particle_cloud[i].pose
            /\ published[i].w = particle_cloud[i].w

\* C8 amended: every published snapshot has one entry per particle, in order,
\* and the i-th entry is the i-th particle's pose; no weight is exported.
C8_PosesOnly ==
    nPub > 0 =>
        /\ Len(published) = Len(particle_cloud)
        /\ \A i \in 1 .. Len(published) :
            /\ published[i] = particle_cloud[i].pose
            /\ "w" \notin DOMAIN published[i]

C8_Witness == pc = "run" /\ nPub > 1 /\ Len(published) = NumSeeds

\* C9: once initialization completes, the stored map is the most recently
\* delivered one, also when it was delivered while __init__ was running.
C9_MapRetained == (initialized /\ nMaps > 0) => map = delivered

\* C10: a scan delivered while initialized is False is ignored, reading only
\* the flag and changing neither the particles, the map nor the field; the
\* flag is True only with the cloud fully seeded and never falls back.
C10_GuardedByFlag ==
    [][/\ (ScanStep /\ ~initialized) =>
            /\ outcome' = "ignored"
            /\ reads' = {"initialized"}
            /\ contrib' = {}
            /\ particle_cloud' = particle_cloud
            /\ map' = map
            /\ likelihood_field' = likelihood_field
       /\ initialized => initialized'
       /\ initialized' => (Seeded(particle_cloud') /\ nPub' > 0)]_vars

C10_Witness == initialized /\ outcome = "ignored" /\ nScans > 0

====
